---- MODULE Spec2Model ----
(***************************************************************************)
(* A model of imucal: the CalibrationInfo record (subclass registry,      *)
(* equality, JSON and HDF5 serialisation), the auto-detecting loader       *)
(* load_calibration_info, and the FerrarisCalibration estimator.           *)
(*                                                                         *)
(* Python values are modelled as follows.                                  *)
(*   None / str      [py |-> "None", s |-> ""] / [py |-> "str", s |-> ..]  *)
(*   a file name     the sequence of its pieces, "." being the dot         *)
(*   an exception    [kind |-> "raise", exc |-> <type name>, ...]          *)
(***************************************************************************)
EXTENDS Integers, Sequences, FiniteSets, TLC

VARIABLES
    path,          \* load_calibration_info: the path argument
    format,        \* load_calibration_info: the format argument
    load_pc,       \* "call" before load_calibration_info ran, "done" after
    load_result,   \* what load_calibration_info did
    subclasses,    \* the classes derived from CalibrationInfo, in definition order
    lookup_pc,     \* "idle" | "done"
    lookup_tag,    \* the cal_type handed to find_subclass_from_cal_type
    lookup_result, \* what find_subclass_from_cal_type did
    ser_pc,        \* where the serialisation scenario stands
    rec,           \* the record being serialised
    json_str,      \* what to_json returned
    file,          \* the content of the file at the path written and read
    handles,       \* the files opened so far: the operation and the handle's state
    back,          \* what from_json / from_json_file / from_hdf5 returned
    eq_pc,         \* "idle" | "done"
    eq_a,          \* the operands of the comparison
    eq_b,
    eq_ab,         \* the outcome of eq_a == eq_b
    eq_ba,         \* the outcome of eq_b == eq_a
    est_pc,        \* where the estimation stands: "new", "ready", the last
                   \* step of compute_calibration_matrix that ran, "done"
    args,          \* what the caller handed to __init__ or from_section_list
    est,           \* the FerrarisCalibration object
    cal_mat,       \* compute_calibration_matrix: the record being filled
    loc,           \* compute_calibration_matrix: its local variables
    ccm_result     \* what compute_calibration_matrix (or the loader) returned

load_vars == <<path, format, load_pc, load_result>>
registry_vars == <<subclasses>>
lookup_vars == <<lookup_pc, lookup_tag, lookup_result>>
ser_vars == <<ser_pc, rec, json_str, file, handles, back>>
eq_vars == <<eq_pc, eq_a, eq_b, eq_ab, eq_ba>>
est_vars == <<est_pc, args, est, cal_mat, loc, ccm_result>>

vars == <<load_vars, registry_vars, lookup_vars, ser_vars, eq_vars, est_vars>>

---------------------------------------------------------------------------
(* Python values *)

PyNone == [py |-> "None", s |-> ""]
PyStr(s) == [py |-> "str", s |-> s]

\* bool(value) of an Optional[str]
Truthy(v) == v.py = "str" /\ v.s # ""

---------------------------------------------------------------------------
(* load_calibration_info *)

MaxPathLen == 3

\* The pieces file names are built from; "." is the dot character.
NamePieces == {"foo", ".", "json", "hdf", "h5", "xyz"}

RECURSIVE SeqsUpTo(_, _)
SeqsUpTo(S, n) ==
    IF n = 0 THEN {<<>>}
    ELSE LET shorter == SeqsUpTo(S, n - 1)
         IN shorter \cup {Append(q, e) : q \in {r \in shorter : Len(r) = n - 1}, e \in S}

Paths == SeqsUpTo(NamePieces, MaxPathLen)

Formats == {PyNone, PyStr("json"), PyStr("hdf"), PyStr("bogus"), PyStr("h5")}

\* str.rfind("."), 1-based; 0 when there is no dot
RFindDot(name) ==
    IF \E i \in 1..Len(name) : name[i] = "."
    THEN CHOOSE i \in 1..Len(name) :
             name[i] = "." /\ \A j \in (i + 1)..Len(name) : name[j] # "."
    ELSE 0

\* pathlib's PurePath.suffix: the final component's last dot and what follows
\* it, empty when the dot is the first or the last character
PathSuffix(p) ==
    LET i == RFindDot(p)
    IN IF 1 < i /\ i < Len(p) THEN SubSeq(p, i, Len(p)) ELSE <<>>

\* a str literal as a sequence of pieces
Lit(s) == <<s>>

format_options == [json |-> "from_json_file", hdf |-> "from_hdf5"]

Raise(exc, msg) == [kind |-> "raise", exc |-> exc, msg |-> msg, loader |-> ""]
CallLoader(name) == [kind |-> "call", exc |-> "", msg |-> "", loader |-> name]
NotRun == [kind |-> "none", exc |-> "", msg |-> "", loader |-> ""]

\* lines 284-293: the format resolved from the suffix; "" when undetermined
FormatFromSuffix(suffix) ==
    IF suffix = Lit("json") THEN "json"
    ELSE IF suffix \in {Lit("hdf"), Lit("h5")} THEN "hdf"
    ELSE ""

\* a variant of load_calibration_info that trusts an explicit format
LoadCalibrationInfoUnchecked(p, fmt) ==
    IF fmt.py = "None"
    THEN IF FormatFromSuffix(PathSuffix(p)) = ""
         THEN Raise("ValueError", "format could not be determined from the file suffix")
         ELSE CallLoader(format_options[FormatFromSuffix(PathSuffix(p))])
    ELSE IF fmt.s = "hdf" THEN CallLoader("from_hdf5") ELSE CallLoader("from_json_file")

\* load_calibration_info(path, format): the loader it calls, or the error
LoadCalibrationInfo(p, fmt) ==
    LET resolved == IF fmt.py = "None" THEN FormatFromSuffix(PathSuffix(p)) ELSE fmt.s
    IN IF fmt.py = "None" /\ resolved = ""
       THEN Raise("ValueError", "format could not be determined from the file suffix")
       ELSE IF resolved \notin DOMAIN format_options
       THEN Raise("ValueError", "format must be one of json, hdf")
       ELSE CallLoader(format_options[resolved])

InitLoad ==
    /\ path \in Paths
    /\ format \in Formats
    /\ load_pc = "call"
    /\ load_result = NotRun

IdleLoad ==
    /\ path = <<>>
    /\ format = PyNone
    /\ load_pc = "idle"
    /\ load_result = NotRun

CallLoadCalibrationInfo ==
    /\ load_pc = "call"
    /\ load_result' = LoadCalibrationInfo(path, format)
    /\ load_pc' = "done"
    /\ UNCHANGED <<path, format, registry_vars, lookup_vars, ser_vars, eq_vars, est_vars>>

---------------------------------------------------------------------------
(* The subclass registry and find_subclass_from_cal_type *)

\* the classes defined after FerrarisCalibrationInfo: before a lookup or a
\* comparison, and before a record is serialised
MaxClasses == 2
MaxSerialClasses == 1

\* CalibrationInfo's dataclass fields (lines 27-31)
MetaFields == <<"acc_unit", "gyr_unit", "from_acc_unit", "from_gyr_unit", "comment">>

\* FerrarisCalibrationInfo's parameter fields
FerrarisParas == <<"K_a", "R_a", "b_a", "K_g", "R_g", "K_ga", "b_g">>

\* the parameter field and the CAL_TYPE of the k-th class defined after
\* FerrarisCalibrationInfo: tags are unique by construction
ExtraParaNames == <<"p1", "p2", "p3", "p4", "p5", "p6">>
UserTags == <<"TagA", "TagB", "TagC", "TagD", "TagE", "TagF">>

\* a tag no class carries
UnknownTags == {"Nope"}

\* class 0 is CalibrationInfo itself; class i > 0 is subclasses[i]
FerrarisCalibrationInfo == [parent |-> 0, cal_type |-> "Ferraris", own |-> FerrarisParas]

ClassIds(reg) == 1..Len(reg)

\* cls.__subclasses__(): the direct subclasses, in definition order
RECURSIVE DirectSubclasses(_, _, _)
DirectSubclasses(reg, cls, from) ==
    IF from > Len(reg) THEN <<>>
    ELSE IF reg[from].parent = cls
         THEN <<from>> \o DirectSubclasses(reg, cls, from + 1)
         ELSE DirectSubclasses(reg, cls, from + 1)

\* cls._get_subclasses(): for each direct subclass, its descendants, then itself
RECURSIVE GetSubclasses(_, _)
RECURSIVE GetSubclassesOf(_, _)
GetSubclassesOf(reg, direct) ==
    IF direct = <<>> THEN <<>>
    ELSE GetSubclasses(reg, Head(direct)) \o <<Head(direct)>>
             \o GetSubclassesOf(reg, Tail(direct))
GetSubclasses(reg, cls) == GetSubclassesOf(reg, DirectSubclasses(reg, cls, 1))

Found(cls) == [kind |-> "return", cls |-> cls, exc |-> "", msg |-> ""]
LookupRaise(exc, msg) == [kind |-> "raise", cls |-> 0, exc |-> exc, msg |-> msg]
LookupIdle == [kind |-> "none", cls |-> 0, exc |-> "", msg |-> ""]

\* next(x for x in CalibrationInfo._get_subclasses() if x.CAL_TYPE == cal_type)
FindSubclassFromCalType(reg, cal_type) ==
    LET all == GetSubclasses(reg, 0)
        hits == {i \in 1..Len(all) : reg[all[i]].cal_type = cal_type}
    IN IF hits = {}
       THEN LookupRaise("StopIteration", "")
       ELSE Found(all[CHOOSE i \in hits : \A j \in hits : i <= j])

\* dataclasses.fields(cls): the inherited fields, then the class's own
RECURSIVE Fields(_, _)
Fields(reg, cls) ==
    IF cls = 0 THEN MetaFields ELSE Fields(reg, reg[cls].parent) \o reg[cls].own

\* cls._cal_paras
RECURSIVE CalParas(_, _)
CalParas(reg, cls) ==
    IF cls = 0 THEN <<>> ELSE CalParas(reg, reg[cls].parent) \o reg[cls].own

\* isinstance(obj of class sub, cls)
RECURSIVE IsSubclass(_, _, _)
IsSubclass(reg, sub, cls) ==
    IF sub = cls THEN TRUE
    ELSE IF sub = 0 THEN FALSE
    ELSE IsSubclass(reg, reg[sub].parent, cls)

RegisteredTags(reg) == {reg[i].cal_type : i \in ClassIds(reg)}

InitRegistry == subclasses = <<FerrarisCalibrationInfo>>

\* A new subclass of CalibrationInfo, or of one of its subclasses, is defined.
\* Every subclass sets a CAL_TYPE of its own (lines 37-40), unique among the
\* classes defined so far; it may declare one more parameter field.
DefineSubclass ==
    /\ lookup_pc = "idle" /\ eq_pc = "idle" /\ ser_pc \in {"idle", "setup"}
    /\ Len(subclasses) < 1 + (IF ser_pc = "setup" THEN MaxSerialClasses ELSE MaxClasses)
    /\ \E parent \in 0..Len(subclasses),
          own \in {<<>>, <<ExtraParaNames[Len(subclasses)]>>} :
           subclasses' = Append(subclasses,
                                [parent |-> parent,
                                 cal_type |-> UserTags[Len(subclasses)],
                                 own |-> own])
    /\ UNCHANGED <<load_vars, lookup_vars, ser_vars, eq_vars, est_vars>>

InitLookup ==
    /\ lookup_pc = "idle"
    /\ lookup_tag = ""
    /\ lookup_result = LookupIdle

CallFindSubclassFromCalType ==
    /\ lookup_pc = "idle"
    /\ \E tag \in RegisteredTags(subclasses) \cup UnknownTags \cup {UserTags[Len(subclasses)]} :
         /\ lookup_tag' = tag
         /\ lookup_result' = FindSubclassFromCalType(subclasses, tag)
    /\ lookup_pc' = "done"
    /\ UNCHANGED <<load_vars, registry_vars, ser_vars, eq_vars, est_vars>>

---------------------------------------------------------------------------
(* numpy arrays, JSON values and the conversions between them *)

Range(q) == {q[i] : i \in 1..Len(q)}

\* the product of a shape's dimensions
RECURSIVE Size(_)
Size(shape) == IF shape = <<>> THEN 1 ELSE Head(shape) * Size(Tail(shape))

\* numpy.ndarray: its shape and its elements in row-major order
NdArray(shape, data) == [py |-> "ndarray", shape |-> shape, data |-> data]

\* an object json cannot serialise (a set, bytes, ...)
PyObject == [py |-> "object", s |-> ""]

JNull == [t |-> "null"]
JStr(s) == [t |-> "str", s |-> s]
JNum(n) == [t |-> "num", n |-> n]
JArr(items) == [t |-> "arr", items |-> items]

\* ndarray.tolist(): nested lists, one level per dimension
RECURSIVE ToListRec(_, _)
ToListRec(shape, data) ==
    IF shape = <<>> THEN JNum(data[1])
    ELSE LET n == Head(shape)
             rest == Tail(shape)
             w == Size(rest)
         IN JArr([i \in 1..n |-> ToListRec(rest, SubSeq(data, (i - 1) * w + 1, i * w))])

\* a variant of tolist() that flattens the array (ndarray.ravel().tolist())
ToListFlat(arr) == JArr([i \in 1..Len(arr.data) |-> JNum(arr.data[i])])

ToList(arr) == ToListRec(arr.shape, arr.data)

RECURSIVE ConcatAll(_)
ConcatAll(qs) == IF qs = <<>> THEN <<>> ELSE Head(qs) \o ConcatAll(Tail(qs))

\* numpy.array(obj) of a decoded JSON value: the shape is read off the nesting;
\* a scalar (a number, None, a str) gives a 0-d array, ragged lists an array of
\* objects
RECURSIVE NpArray(_)
NpArray(j) ==
    IF j.t = "num" THEN NdArray(<<>>, <<j.n>>)
    ELSE IF j.t # "arr" THEN NdArray(<<>>, <<j>>)
    ELSE LET n == Len(j.items)
             subs == [i \in 1..n |-> NpArray(j.items[i])]
         IN IF n = 0 THEN NdArray(<<0>>, <<>>)
            ELSE IF \A i \in 1..n : subs[i].shape = subs[1].shape
                 THEN NdArray(<<n>> \o subs[1].shape,
                              ConcatAll([i \in 1..n |-> subs[i].data]))
                 ELSE NdArray(<<n>>, j.items)

\* json.dumps of one value of the dict: NumpyEncoder.default turns arrays
\* into lists (lines 13-19); "unserialisable" stands for the TypeError
Encode(v) ==
    IF v.py = "None" THEN JNull
    ELSE IF v.py = "str" THEN JStr(v.s)
    ELSE IF v.py = "ndarray" THEN ToList(v)
    ELSE [t |-> "unserialisable"]

\* json.loads of one value that is not an array parameter
Decode(j) ==
    IF j.t = "null" THEN PyNone
    ELSE IF j.t = "str" THEN PyStr(j.s)
    ELSE [py |-> "list", s |-> ""]

---------------------------------------------------------------------------
(* Calibration records: [cls |-> class, vals |-> field name -> value] *)

Ok(v) == [kind |-> "return", val |-> v, exc |-> ""]
Err(exc) == [kind |-> "raise", val |-> PyNone, exc |-> exc]
Pending == [kind |-> "none", val |-> PyNone, exc |-> ""]

\* CAL_TYPE of a class; CalibrationInfo itself only annotates it (line 26)
HasCalType(reg, cls) == cls # 0
CalType(reg, cls) == reg[cls].cal_type

\* _to_list_dict (lines 123-126): asdict(self) plus the cal_type key
ToListDict(reg, r) ==
    [k \in Range(Fields(reg, r.cls)) \cup {"cal_type"} |->
        IF k = "cal_type" THEN PyStr(CalType(reg, r.cls)) ELSE r.vals[k]]

\* to_json (lines 145-148): the JSON object, or the encoder's TypeError
ToJson(reg, r) ==
    LET d == ToListDict(reg, r)
    IN IF \E k \in DOMAIN d : Encode(d[k]).t = "unserialisable"
       THEN Err("TypeError")
       ELSE Ok([k \in DOMAIN d |-> Encode(d[k])])

\* _from_list_dict (lines 128-132): every _cal_paras entry through np.array,
\* then cls(**list_dict); a field the dict lacks keeps its default, None
FromListDictWith(reg, cls, list_dict, paras) ==
    IF \E k \in Range(paras) : k \notin DOMAIN list_dict
    THEN Err("KeyError")
    ELSE IF \E k \in DOMAIN list_dict : k \notin Range(Fields(reg, cls))
    THEN Err("TypeError")
    ELSE Ok([cls |-> cls,
             vals |-> [f \in Range(Fields(reg, cls)) |->
                         IF f \notin DOMAIN list_dict THEN PyNone
                         ELSE IF f \in Range(paras) THEN NpArray(list_dict[f])
                         ELSE Decode(list_dict[f])]])

FromListDict(reg, cls, list_dict) ==
    FromListDictWith(reg, cls, list_dict, CalParas(reg, cls))

\* from_json (lines 150-167) on a parsed JSON object
FromJson(reg, doc) ==
    IF "cal_type" \notin DOMAIN doc THEN Err("KeyError")
    ELSE LET tag == doc["cal_type"]
             found == IF tag.t = "str" THEN FindSubclassFromCalType(reg, tag.s)
                      ELSE LookupRaise("StopIteration", "")
         IN IF found.kind = "raise" THEN Err(found.exc)
            ELSE FromListDict(reg, found.cls,
                              [k \in DOMAIN doc \ {"cal_type"} |-> doc[k]])

---------------------------------------------------------------------------
(* Equality: CalibrationInfo.__eq__ and the == operator *)

\* numpy.array_equal(a1, a2) for an array a1
ArrayEqual(a1, a2) ==
    /\ a2.py = "ndarray"
    /\ a1.shape = a2.shape
    /\ a1.data = a2.data

\* lines 112-121: the fields compared in order; the first unequal one decides
RECURSIVE CompareFields(_, _, _)
CompareFields(fs, self, other) ==
    IF fs = <<>> THEN Ok(TRUE)
    ELSE LET a1 == self.vals[Head(fs)]
             a2 == other.vals[Head(fs)]
         IN IF a1.py = "ndarray"
            THEN IF ArrayEqual(a1, a2) THEN CompareFields(Tail(fs), self, other)
                 ELSE Ok(FALSE)
            ELSE IF a2.py = "ndarray"
            THEN IF Size(a2.shape) = 1
                 THEN Ok(FALSE)
                 ELSE Err("ValueError")  \* truth value of an array is ambiguous
            ELSE IF a1 = a2 THEN CompareFields(Tail(fs), self, other)
            ELSE Ok(FALSE)

\* a variant of __eq__ that answers False for another class instead of raising
EqNoTypeCheck(reg, self, other) ==
    IF ~IsSubclass(reg, other.cls, self.cls) THEN Ok(FALSE)
    ELSE IF Fields(reg, self.cls) # Fields(reg, other.cls) THEN Ok(FALSE)
    ELSE CompareFields(Fields(reg, self.cls), self, other)

\* CalibrationInfo.__eq__(self, other), lines 94-121
PyEq(reg, self, other) ==
    IF ~IsSubclass(reg, other.cls, self.cls) THEN Err("ValueError")
    ELSE IF Fields(reg, self.cls) # Fields(reg, other.cls) THEN Ok(FALSE)
    ELSE IF ~HasCalType(reg, self.cls) THEN Err("AttributeError")
    ELSE IF CalType(reg, self.cls) # CalType(reg, other.cls) THEN Ok(FALSE)
    ELSE CompareFields(Fields(reg, self.cls), self, other)

\* the expression a == b: when b's class is a proper subclass of a's, Python
\* tries b.__eq__(a) first; __eq__ never answers NotImplemented
RichCompare(reg, a, b) ==
    IF a.cls # b.cls /\ IsSubclass(reg, b.cls, a.cls)
    THEN PyEq(reg, b, a)
    ELSE PyEq(reg, a, b)

---------------------------------------------------------------------------
(* The HDF5 container: dataset name -> dataset *)

ArrayDataset(arr) == [h5 |-> "array", val |-> arr]
ScalarDataset(v) == [h5 |-> "scalar", val |-> v]

HdfFile(c) == [kind |-> "hdf", content |-> c]
JsonFile(doc) == [kind |-> "json", content |-> doc]
BrokenFile == [kind |-> "broken", content |-> <<>>]
NoFile == [kind |-> "absent", content |-> <<>>]

EmptyContainer == [k \in {} |-> ArrayDataset(NdArray(<<>>, <<>>))]

Put(c, k, v) == [x \in DOMAIN c \cup {k} |-> IF x = k THEN v ELSE c[x]]

\* lines 213-219: one pass over fields(self); out.exc is the error that ended it
RECURSIVE WriteFields(_, _, _, _)
WriteFields(fs, r, paras, c) ==
    IF fs = <<>> THEN [exc |-> "", content |-> c]
    ELSE LET k == Head(fs)
             value == r.vals[k]
         IN IF k \in Range(paras)
            THEN IF value.py # "ndarray"
                 THEN [exc |-> "AttributeError", content |-> c]  \* no .tolist()
                 ELSE WriteFields(Tail(fs), r, paras,
                                  Put(c, k, ArrayDataset(NpArray(ToList(value)))))
            ELSE IF value.py = "object"
                 THEN [exc |-> "TypeError", content |-> c]
                 ELSE IF Truthy(value)
                      THEN WriteFields(Tail(fs), r, paras, Put(c, k, ScalarDataset(value)))
                      ELSE WriteFields(Tail(fs), r, paras, c)

\* to_hdf5 (lines 201-220): the container written, and the error if one ended it
ToHdf5(reg, r) ==
    LET out == WriteFields(Fields(reg, r.cls), r, CalParas(reg, r.cls), EmptyContainer)
    IN IF out.exc # "" THEN out
       ELSE [exc |-> "",
             content |-> Put(out.content, "cal_type",
                             ScalarDataset(PyStr(CalType(reg, r.cls))))]

\* lines 243-250: the value read for field k
ReadField(c, k, isPara) ==
    IF isPara
    THEN IF k \notin DOMAIN c THEN NdArray(<<>>, <<JNull>>)
         ELSE IF c[k].h5 = "array" THEN c[k].val
         ELSE NdArray(<<>>, <<JStr(c[k].val.s)>>)
    ELSE IF k \in DOMAIN c THEN c[k].val ELSE PyNone

\* from_hdf5 (lines 222-252) on the file's content
FromHdf5(reg, f) ==
    IF f.kind # "hdf" THEN Err("OSError")
    ELSE IF "cal_type" \notin DOMAIN f.content THEN Err("KeyError")
    ELSE LET tag == f.content["cal_type"]
             found == IF tag.h5 = "scalar"
                      THEN FindSubclassFromCalType(reg, tag.val.s)
                      ELSE LookupRaise("StopIteration", "")
         IN IF found.kind = "raise" THEN Err(found.exc)
            ELSE Ok([cls |-> found.cls,
                     vals |-> [k \in Range(Fields(reg, found.cls)) |->
                                 ReadField(f.content, k,
                                           k \in Range(CalParas(reg, found.cls)))]])

---------------------------------------------------------------------------
(* Records to serialise *)

MaxMetaSet == 2

\* the axes of the sensor (ACC_COLS, GYRO_COLS)
AXES == 3

ParaSeeds == {0, 1}

MetaValues == {PyNone, PyStr(""), PyStr("m/s^2")}

\* the shape of a parameter field: the Ferraris vectors and matrices, and a
\* short vector for a field a later subclass adds
ParaShape(name) ==
    IF name \in {"b_a", "b_g"} THEN <<AXES>>
    ELSE IF name \in Range(FerrarisParas) THEN <<AXES, AXES>>
    ELSE <<2>>

\* position of name in the sequence q
IndexOf(q, name) == CHOOSE i \in 1..Len(q) : q[i] = name

ParaArray(name, seed, salt) ==
    NdArray(ParaShape(name),
            [k \in 1..Size(ParaShape(name)) |-> (seed + 1) * k + salt])

\* the assignments of the five optional fields with at most MaxMetaSet set
MetaAssignments ==
    {m \in [Range(MetaFields) -> MetaValues] :
        Cardinality({f \in Range(MetaFields) : m[f] # PyNone}) <= MaxMetaSet}

MakeRecord(reg, cls, seed, meta) ==
    [cls |-> cls,
     vals |-> [f \in Range(Fields(reg, cls)) |->
                 IF f \in Range(MetaFields) THEN meta[f]
                 ELSE ParaArray(f, seed, IndexOf(Fields(reg, cls), f))]]

\* records of a registered subclass: every parameter a numeric array, every
\* optional field a str or None
ValidRecords(reg) ==
    {MakeRecord(reg, cls, seed, meta) :
        cls \in ClassIds(reg), seed \in ParaSeeds, meta \in MetaAssignments}

NoMeta == [f \in Range(MetaFields) |-> PyNone]

\* records that also hold what serialisation may choke on: a comment json
\* cannot encode, a parameter left at None
OddRecords(reg) ==
    {[r EXCEPT !.vals[f] = v] :
        r \in {MakeRecord(reg, 1, seed, NoMeta) : seed \in ParaSeeds},
        f \in {"comment", "b_a"},
        v \in {PyNone, PyStr("note"), PyObject}}

NoRecord == [cls |-> 0, vals |-> NoMeta]

InitSerial ==
    /\ ser_pc = "setup"
    /\ rec = NoRecord
    /\ json_str = Pending
    /\ file = NoFile
    /\ handles = <<>>
    /\ back = Pending

IdleSerial ==
    /\ ser_pc = "idle"
    /\ rec = NoRecord
    /\ json_str = Pending
    /\ file = NoFile
    /\ handles = <<>>
    /\ back = Pending

\* a valid record is constructed
ConstructRecord ==
    /\ ser_pc = "setup"
    /\ rec' \in ValidRecords(subclasses)
    /\ ser_pc' = "have"
    /\ UNCHANGED <<json_str, file, handles, back, subclasses, load_vars, lookup_vars, eq_vars, est_vars>>

\* any record is constructed: the dataclass does not validate its fields
ConstructAnyRecord ==
    /\ ser_pc = "setup"
    /\ rec' \in OddRecords(subclasses)
    /\ ser_pc' = "have"
    /\ UNCHANGED <<json_str, file, handles, back, subclasses, load_vars, lookup_vars, eq_vars, est_vars>>

CallToJson ==
    /\ ser_pc = "have"
    /\ json_str' = ToJson(subclasses, rec)
    /\ ser_pc' = "json"
    /\ UNCHANGED <<rec, file, handles, back, subclasses, load_vars, lookup_vars, eq_vars, est_vars>>

CallFromJson ==
    /\ ser_pc = "json"
    /\ json_str.kind = "return"
    /\ back' = FromJson(subclasses, json_str.val)
    /\ ser_pc' = "done_json"
    /\ UNCHANGED <<rec, json_str, file, handles, subclasses, load_vars, lookup_vars, eq_vars, est_vars>>

Handle(op, state) == [op |-> op, state |-> state]

\* The state, when the call ends, of a file object that was opened inline and
\* never closed (lines 179, 197). While an exception raised under json.dump or
\* json.load propagates, its traceback keeps the file object alive: it is
\* open. Otherwise the object is unreferenced when the call ends: a
\* reference-counting interpreter has closed it, any other has not yet.
UnclosedAtExit(heldByTraceback) ==
    IF heldByTraceback THEN {"open"} ELSE {"open", "closed"}

\* to_json_file (lines 169-179): open(path, "w") creates or truncates the file
CallToJsonFile ==
    /\ ser_pc = "have"
    /\ LET out == ToJson(subclasses, rec)
       IN /\ file' = IF out.kind = "return" THEN JsonFile(out.val) ELSE BrokenFile
          /\ \E st \in UnclosedAtExit(out.kind = "raise") :
                handles' = Append(handles, Handle("to_json_file", st))
    /\ ser_pc' = "jsonfile"
    /\ UNCHANGED <<rec, json_str, back, subclasses, load_vars, lookup_vars, eq_vars, est_vars>>

\* from_json_file (lines 181-199)
CallFromJsonFile ==
    /\ ser_pc \in {"jsonfile", "jsonfile_edited"}
    /\ IF file.kind = "absent"
       THEN /\ back' = Err("FileNotFoundError")
            /\ handles' = handles
       ELSE IF file.kind # "json"
       THEN /\ back' = Err("JSONDecodeError")
            /\ handles' = Append(handles, Handle("from_json_file", "open"))
       ELSE /\ back' = FromJson(subclasses, file.content)
            /\ \E st \in UnclosedAtExit(FALSE) :
                  handles' = Append(handles, Handle("from_json_file", st))
    /\ ser_pc' = "done_jsonfile"
    /\ UNCHANGED <<rec, json_str, file, subclasses, load_vars, lookup_vars, eq_vars, est_vars>>

\* to_hdf5 (lines 201-220): the with block closes the file on every exit
CallToHdf5 ==
    /\ ser_pc = "have"
    /\ HasCalType(subclasses, rec.cls)
    /\ file' = HdfFile(ToHdf5(subclasses, rec).content)
    /\ handles' = Append(handles, Handle("to_hdf5", "closed"))
    /\ ser_pc' = "hdf"
    /\ UNCHANGED <<rec, json_str, back, subclasses, load_vars, lookup_vars, eq_vars, est_vars>>

\* from_hdf5 (lines 222-252): h5py.File raises before a file is open when the
\* path holds no HDF5 file; the with block closes it otherwise
CallFromHdf5 ==
    /\ ser_pc \in {"hdf", "hdf_edited"}
    /\ back' = FromHdf5(subclasses, file)
    /\ handles' = IF file.kind = "hdf"
                  THEN Append(handles, Handle("from_hdf5", "closed"))
                  ELSE handles
    /\ ser_pc' = "done_hdf"
    /\ UNCHANGED <<rec, json_str, file, subclasses, load_vars, lookup_vars, eq_vars, est_vars>>

Without(f, k) == [x \in DOMAIN f \ {k} |-> f[x]]

\* what another program may leave at the path: a file of an unknown
\* calibration type, a file without one parameter, no file, a damaged file
EditedFiles(f) ==
    IF f.kind = "json"
    THEN {JsonFile([f.content EXCEPT !["cal_type"] = JStr("Nope")]),
          JsonFile(Without(f.content, "b_a")), BrokenFile, NoFile}
    ELSE IF f.kind = "hdf"
    THEN {HdfFile(Put(f.content, "cal_type", ScalarDataset(PyStr("Nope")))),
          HdfFile(Without(f.content, "b_a")), BrokenFile}
    ELSE {}

\* the file is changed between the write and the read
EditFile ==
    /\ ser_pc \in {"jsonfile", "hdf"}
    /\ file' \in EditedFiles(file)
    /\ ser_pc' = IF ser_pc = "hdf" THEN "hdf_edited" ELSE "jsonfile_edited"
    /\ UNCHANGED <<rec, json_str, handles, back, subclasses, load_vars, lookup_vars, eq_vars, est_vars>>

---------------------------------------------------------------------------
(* Comparing two records *)

\* instances of CalibrationInfo itself and of every subclass
EqRecords(reg) ==
    {MakeRecord(reg, cls, seed, [NoMeta EXCEPT !["comment"] = c]) :
        cls \in 0..Len(reg), seed \in ParaSeeds, c \in {PyNone, PyStr("note")}}

InitEq ==
    /\ eq_pc = "idle"
    /\ eq_a = NoRecord
    /\ eq_b = NoRecord
    /\ eq_ab = Pending
    /\ eq_ba = Pending

\* a == b and b == a are evaluated
Compare ==
    /\ eq_pc = "idle"
    /\ \E a \in EqRecords(subclasses), b \in EqRecords(subclasses) :
         /\ eq_a' = a
         /\ eq_b' = b
         /\ eq_ab' = RichCompare(subclasses, a, b)
         /\ eq_ba' = RichCompare(subclasses, b, a)
    /\ eq_pc' = "done"
    /\ UNCHANGED <<subclasses, load_vars, lookup_vars, ser_vars, est_vars>>

---------------------------------------------------------------------------
(* Floating-point numbers: exact rationals <<n, d>> with d > 0, and NaN for *)
(* the value that is not a finite number (nan, inf)                         *)

NaN == <<0, 0>>
IsNaN(x) == x[2] = 0

Abs(n) == IF n < 0 THEN -n ELSE n

RECURSIVE Gcd(_, _)
Gcd(a, b) == IF b = 0 THEN a ELSE Gcd(b, a % b)

Rat(n, d) ==
    IF d = 0 THEN NaN
    ELSE LET g == Gcd(Abs(n), Abs(d))
         IN IF d < 0 THEN <<(-n) \div g, (-d) \div g>> ELSE <<n \div g, d \div g>>

Num(n) == <<n, 1>>
Zero == Num(0)
One == Num(1)
IsZero(x) == x = Zero

RAdd(x, y) ==
    IF IsNaN(x) \/ IsNaN(y) THEN NaN
    ELSE LET g == Gcd(x[2], y[2])
         IN Rat(x[1] * (y[2] \div g) + y[1] * (x[2] \div g), (x[2] \div g) * y[2])
RNeg(x) == IF IsNaN(x) THEN NaN ELSE <<-x[1], x[2]>>
RSub(x, y) == RAdd(x, RNeg(y))
\* (a / b) * (c / d), reduced crosswise before multiplying
Times(a, b, c, d) ==
    LET g1 == Gcd(Abs(a), Abs(d))
        g2 == Gcd(Abs(c), Abs(b))
    IN IF a = 0 \/ c = 0 THEN Zero
       ELSE Rat((a \div g1) * (c \div g2), (b \div g2) * (d \div g1))
RMul(x, y) == IF IsNaN(x) \/ IsNaN(y) THEN NaN ELSE Times(x[1], x[2], y[1], y[2])
\* x / y; a division by zero gives a non-finite value
RDiv(x, y) ==
    IF IsNaN(x) \/ IsNaN(y) \/ y[1] = 0 THEN NaN ELSE Times(x[1], x[2], y[2], y[1])

\* the largest r with r * r <= n
RECURSIVE ISqrtIn(_, _, _)
ISqrtIn(n, lo, hi) ==
    IF lo = hi THEN lo
    ELSE LET mid == (lo + hi + 1) \div 2
         IN IF mid * mid <= n THEN ISqrtIn(n, mid, hi) ELSE ISqrtIn(n, lo, mid - 1)
ISqrt(n) == ISqrtIn(n, 0, IF n < 46340 THEN n ELSE 46340)

\* numpy.sqrt: exact on the square of a rational; any other value is rounded
\* (down, to 1/100, of the argument cut to six digits), as a float rounds;
\* nan for a negative number
RSqrt(x) ==
    IF IsNaN(x) \/ x[1] < 0 THEN NaN
    ELSE LET rn == ISqrt(x[1])
             rd == ISqrt(x[2])
             k == ((IF x[1] > x[2] THEN x[1] ELSE x[2]) \div 100000) + 1
             n == x[1] \div k
             d == IF x[2] \div k = 0 THEN 1 ELSE x[2] \div k
         IN IF rn * rn = x[1] /\ rd * rd = x[2] THEN <<rn, rd>>
            ELSE Rat(ISqrt((n * 10000) \div d), 100)

---------------------------------------------------------------------------
(* Vectors <<x, y, z>>, matrices as sequences of rows, sample arrays as    *)
(* sequences of vectors                                                    *)

Axes == 1..AXES

ZeroVec == [i \in Axes |-> Zero]
NaNVec == [i \in Axes |-> NaN]
NaNMat == [i \in Axes |-> NaNVec]

VAdd(u, v) == [i \in Axes |-> RAdd(u[i], v[i])]
VSub(u, v) == [i \in Axes |-> RSub(u[i], v[i])]
VScale(u, c) == [i \in Axes |-> RMul(u[i], c)]
VDiv(u, c) == [i \in Axes |-> RDiv(u[i], c)]

RECURSIVE VSum(_)
VSum(rows) == IF rows = <<>> THEN ZeroVec ELSE VAdd(Head(rows), VSum(Tail(rows)))

MAdd(A, B) == [i \in Axes |-> VAdd(A[i], B[i])]
MSub(A, B) == [i \in Axes |-> VSub(A[i], B[i])]
MDiv(A, c) == [i \in Axes |-> VDiv(A[i], c)]
Transpose(A) == [i \in Axes |-> [j \in Axes |-> A[j][i]]]

Dot(u, v) == RAdd(RAdd(RMul(u[1], v[1]), RMul(u[2], v[2])), RMul(u[3], v[3]))
MatVec(A, v) == [i \in Axes |-> Dot(A[i], v)]
MatMul(A, B) == [i \in Axes |-> [j \in Axes |-> Dot(A[i], Transpose(B)[j])]]

\* numpy.diag of a matrix, and of a vector
DiagOf(A) == [i \in Axes |-> A[i][i]]
DiagMat(v) == [i \in Axes |-> [j \in Axes |-> IF i = j THEN v[i] ELSE Zero]]
Identity == DiagMat([i \in Axes |-> One])

HasNaN(A) == \E i \in Axes, j \in Axes : IsNaN(A[i][j])

Det2(a, b, c, d) == RSub(RMul(a, d), RMul(b, c))

\* the cofactor of A[i][j]
Cofactor(A, i, j) ==
    LET r == IF i = 1 THEN <<2, 3>> ELSE IF i = 2 THEN <<1, 3>> ELSE <<1, 2>>
        c == IF j = 1 THEN <<2, 3>> ELSE IF j = 2 THEN <<1, 3>> ELSE <<1, 2>>
        m == Det2(A[r[1]][c[1]], A[r[1]][c[2]], A[r[2]][c[1]], A[r[2]][c[2]])
    IN IF (i + j) % 2 = 0 THEN m ELSE RNeg(m)

Det(A) ==
    RAdd(RAdd(RMul(A[1][1], Cofactor(A, 1, 1)), RMul(A[1][2], Cofactor(A, 1, 2))),
         RMul(A[1][3], Cofactor(A, 1, 3)))

\* numpy.linalg.inv: LinAlgError for a singular matrix; a matrix holding nan
\* comes back all nan or raises, as the LAPACK build's pivot search has it
Inv(A) ==
    IF HasNaN(A) THEN {Ok(NaNMat), Err("LinAlgError")}
    ELSE IF IsZero(Det(A)) THEN {Err("LinAlgError")}
    ELSE {Ok([i \in Axes |-> [j \in Axes |-> RDiv(Cofactor(A, j, i), Det(A))]])}

\* an (n, 3) array of samples, or None
Samples(rows) == [some |-> TRUE, rows |-> rows]
NoneSamples == [some |-> FALSE, rows |-> <<>>]

\* numpy.mean(a, axis=0) of an (n, 3) array: nan for no rows
MeanRows(rows) == VDiv(VSum(rows), Num(Len(rows)))

\* numpy.vstack((m1, m2, m3)).T: the means as columns
Columns(m1, m2, m3) == Transpose(<<m1, m2, m3>>)

---------------------------------------------------------------------------
(* FerrarisCalibration: construction *)

MaxSamples == 2

EXPECTED_ANGLE == 360
DEFAULT_GRAV == Rat(981, 100)

FERRARIS_SECTIONS == <<"x_p", "x_a", "y_p", "y_a", "z_p", "z_a", "x_rot", "y_rot", "z_rot">>
Sections == Range(FERRARIS_SECTIONS)
Sensors == {"acc", "gyr"}

\* an optional number: None, or a float
NoNumber == [some |-> FALSE, v |-> Zero]
Number(x) == [some |-> TRUE, v |-> x]

\* `value or default`: the default replaces None and replaces 0
OrDefault(x, default) == IF x.some /\ ~IsZero(x.v) THEN x.v ELSE default

V3(a, b, c) == <<Num(a), Num(b), Num(c)>>

\* One sample of each section, for a sensor that reads 5 counts per g:
\*   "aligned"      axes aligned, opposite static readings
\*   "identical"    the same, but the two static x readings are identical
\*   "misaligned"   the x axis picks up 4 counts of the y orientation
\*   "crosstalk"    the x gyroscope turns 216 degrees during the x rotation and
\*                  288 during the y rotation
\* The gyroscope rests at 1 on x, reads 1 more per g along x, and turns 360
\* degrees in each rotation section.
Reading(variant, sensor, label) ==
    IF sensor = "acc"
    THEN CASE label = "x_p" -> V3(IF variant = "misaligned" THEN 3 ELSE 5, 0, 0)
           [] label = "x_a" -> IF variant = "identical" THEN V3(5, 0, 0)
                               ELSE V3(IF variant = "misaligned" THEN -3 ELSE -5, 0, 0)
           [] label = "y_p" -> V3(IF variant = "misaligned" THEN 4 ELSE 0, 5, 0)
           [] label = "y_a" -> V3(IF variant = "misaligned" THEN -4 ELSE 0, -5, 0)
           [] label = "z_p" -> V3(0, 0, 5)
           [] label = "z_a" -> V3(0, 0, -5)
           [] label = "x_rot" -> V3(IF variant = "misaligned" THEN 3 ELSE 5, 0, 0)
           [] label = "y_rot" -> V3(IF variant = "misaligned" THEN 4 ELSE 0, 5, 0)
           [] label = "z_rot" -> V3(0, 0, 5)
    ELSE CASE label = "x_p" -> V3(2, 0, 0)
           [] label = "x_a" -> V3(0, 0, 0)
           [] label = "x_rot" -> V3(IF variant = "crosstalk" THEN 218 ELSE 362, 0, 0)
           [] label = "y_rot" -> V3(IF variant = "crosstalk" THEN 289 ELSE 1, 360, 0)
           [] label = "z_rot" -> V3(1, 0, 360)
           [] OTHER -> V3(1, 0, 0)

Variants == {"aligned", "identical", "misaligned", "crosstalk"}

Repeat(v, n) == [k \in 1..n |-> v]

\* what can be wrong with one of the 18 arrays handed to __init__
Defects ==
    {[kind |-> "none", sensor |-> "acc", label |-> "x_p"]}
    \cup {[kind |-> k, sensor |-> sn, label |-> l] :
            k \in {"missing", "empty"}, sn \in Sensors, l \in Sections}

\* the keyword arguments of __init__: n samples per array, but for the defect
Kwargs(variant, n, defect) ==
    [sn \in Sensors |-> [l \in Sections |->
        IF defect.kind # "none" /\ defect.sensor = sn /\ defect.label = l
        THEN IF defect.kind = "missing" THEN NoneSamples ELSE Samples(<<>>)
        ELSE Samples(Repeat(Reading(variant, sn, l), n))]]

NoKwargs == [sn \in Sensors |-> [l \in Sections |-> NoneSamples]]

\* the sample table handed to from_section_list: n rows per section, in the
\* order of FERRARIS_SECTIONS
DataTable(variant, n) ==
    [k \in 1..(n * Len(FERRARIS_SECTIONS)) |->
        [acc |-> Reading(variant, "acc", FERRARIS_SECTIONS[((k - 1) \div n) + 1]),
         gyr |-> Reading(variant, "gyr", FERRARIS_SECTIONS[((k - 1) \div n) + 1])]]

\* the section list: label, start and end row; for the defect the label's row
\* is left out ("missing") or its range is empty ("empty": start = end)
RECURSIVE SectionRows(_, _, _)
SectionRows(i, n, defect) ==
    IF i > Len(FERRARIS_SECTIONS) THEN <<>>
    ELSE LET l == FERRARIS_SECTIONS[i]
             hit == defect.kind # "none" /\ defect.label = l
             row == [label |-> l, start |-> (i - 1) * n,
                     end |-> IF hit THEN (i - 1) * n ELSE i * n]
         IN IF hit /\ defect.kind = "missing" THEN SectionRows(i + 1, n, defect)
            ELSE <<row>> \o SectionRows(i + 1, n, defect)

SectionDefects == {d \in Defects : d.sensor = "acc"}

Angles == {NoNumber, Number(Num(0)), Number(Num(180)), Number(Num(360))}
Gravs == {NoNumber, Number(Num(5))}

\* what the caller passes: to __init__ (kwargs) or to from_section_list
\* (data, section_list, the list possibly without any row); the rotation
\* sections last one second
EstArgs ==
    {[via |-> "init", sampling_rate |-> Num(n), grav |-> g, expected_angle |-> a,
      kwargs |-> Kwargs(v, n, d), data |-> <<>>, section_list |-> <<>>] :
        n \in 1..MaxSamples, g \in Gravs, a \in Angles, v \in Variants, d \in Defects}
    \cup
    {[via |-> "from_section_list", sampling_rate |-> Num(n), grav |-> g,
      expected_angle |-> a, kwargs |-> NoKwargs,
      data |-> DataTable(v, n), section_list |-> SectionRows(1, n, d)] :
        n \in 1..MaxSamples, g \in Gravs, a \in Angles, v \in Variants,
        d \in SectionDefects}
    \cup
    {[via |-> "from_section_list", sampling_rate |-> Num(n), grav |-> NoNumber,
      expected_angle |-> NoNumber, kwargs |-> NoKwargs,
      data |-> DataTable(v, n), section_list |-> <<>>] :
        n \in 1..MaxSamples, v \in Variants}

\* FerrarisCalibration.__init__ (lines 50-58)
InitEstimator(sampling_rate, grav, expected_angle, kwargs) ==
    [acc |-> kwargs["acc"], gyr |-> kwargs["gyr"],
     sampling_rate |-> sampling_rate,
     grav |-> OrDefault(grav, DEFAULT_GRAV),
     expected_angle |-> OrDefault(expected_angle, Num(EXPECTED_ANGLE))]

\* data.iloc[start:end]
ILoc(data, start, end) == SubSeq(data, start + 1, end)

\* _convert_data_from_section_list_to_df (lines 258-264): label -> its rows;
\* a later row of the list replaces an earlier one of the same label
ConvertDataFromSectionListToDf(data, section_list) ==
    [l \in {section_list[i].label : i \in 1..Len(section_list)} |->
        LET last == CHOOSE i \in 1..Len(section_list) :
                        /\ section_list[i].label = l
                        /\ \A j \in (i + 1)..Len(section_list) : section_list[j].label # l
        IN ILoc(data, section_list[last].start, section_list[last].end)]

\* from_df (lines 60-83): the rows grouped by label; a label without rows
\* forms no group, and __init__ reads kwargs.get(field, None)
FromDf(df, sampling_rate, grav, expected_angle) ==
    LET groups == {l \in DOMAIN df : df[l] # <<>>}
        kw == [sn \in Sensors |-> [l \in Sections |->
                 IF l \in groups
                 THEN Samples([k \in 1..Len(df[l]) |-> df[l][k][sn]])
                 ELSE NoneSamples]]
    IN InitEstimator(sampling_rate, Number(OrDefault(grav, DEFAULT_GRAV)),
                     expected_angle, kw)

\* from_section_list (lines 85-96); pandas.concat raises on no frames at all
FromSectionList(data, section_list, sampling_rate, grav, expected_angle) ==
    IF section_list = <<>> THEN Err("ValueError")
    ELSE Ok(FromDf(ConvertDataFromSectionListToDf(data, section_list),
                   sampling_rate, grav, expected_angle))

---------------------------------------------------------------------------
(* FerrarisCalibrationInfo's transforms *)

Unset == <<>>

\* FerrarisCalibrationInfo(): no parameter set
NewCalMat == [k \in Range(FerrarisParas) |-> Unset]

\* calibrate_acc(acc): inv(R_a) @ inv(K_a) @ (acc - b_a), sample by sample
CalibrateAcc(cm, acc) ==
    {IF ir.kind = "raise" THEN Err(ir.exc)
     ELSE IF ik.kind = "raise" THEN Err(ik.exc)
     ELSE IF ~acc.some THEN Err("TypeError")
     ELSE Ok([k \in 1..Len(acc.rows) |->
                 MatVec(MatMul(ir.val, ik.val), VSub(acc.rows[k], cm["b_a"]))]) :
        ir \in Inv(cm["R_a"]), ik \in Inv(cm["K_a"])}

\* _calibrate_gyro_offsets(gyr, calibrated_acc): gyr - (K_ga @ acc + b_g); the
\* two arrays broadcast when one of them has a single row
CalibrateGyroOffsets(cm, gyr, acc_cor) ==
    LET offsets == [k \in 1..Len(acc_cor) |->
                       VAdd(MatVec(cm["K_ga"], acc_cor[k]), cm["b_g"])]
        n == Len(gyr.rows)
        m == Len(offsets)
    IN IF ~gyr.some THEN Err("TypeError")
       ELSE IF n = m THEN Ok([k \in 1..n |-> VSub(gyr.rows[k], offsets[k])])
       ELSE IF m = 1 THEN Ok([k \in 1..n |-> VSub(gyr.rows[k], offsets[1])])
       ELSE IF n = 1 THEN Ok([k \in 1..m |-> VSub(gyr.rows[1], offsets[k])])
       ELSE Err("ValueError")

---------------------------------------------------------------------------
(* FerrarisCalibration.compute_calibration_matrix, step by step *)

StaticP == <<"x_p", "y_p", "z_p">>
StaticA == <<"x_a", "y_a", "z_a">>
Rotations == <<"x_rot", "y_rot", "z_rot">>
Statics == <<"x_p", "x_a", "y_p", "y_a", "z_p", "z_a">>

\* the means of three arrays as the columns of a matrix (lines 128-137, 187-196)
MeansAsColumns(segs, labels) ==
    Columns(MeanRows(segs[labels[1]].rows), MeanRows(segs[labels[2]].rows),
            MeanRows(segs[labels[3]].rows))

\* lines 140-147
BiasAcc(U_a_p, U_a_n) == DiagOf(MDiv(MAdd(U_a_p, U_a_n), Num(2)))

\* lines 153-158
ScaleAcc(U_a_d, grav) ==
    LET k_a_sq == VScale(DiagOf(MatMul(U_a_d, Transpose(U_a_d))),
                         RDiv(One, RMul(Num(4), RMul(grav, grav))))
    IN DiagMat([i \in Axes |-> RSqrt(k_a_sq[i])])

\* line 163, given inv(K_a)
RotationAcc(invK_a, U_a_d, grav) == MDiv(MatMul(invK_a, U_a_d), RMul(Num(2), grav))

\* lines 173-180: the mean over the rows of the six static arrays
BiasGyro(gyr) ==
    MeanRows(ConcatAll([i \in 1..Len(Statics) |-> gyr[Statics[i]].rows]))

\* line 199
Sensitivity(U_g_p, U_g_a, grav) == MDiv(MSub(U_g_p, U_g_a), RMul(Num(2), grav))

\* lines 214-217: column k is the sum of the k-th rotation's samples over the rate
Integrate(gyr_cor, sampling_rate) ==
    Columns(VDiv(VSum(gyr_cor["x_rot"]), sampling_rate),
            VDiv(VSum(gyr_cor["y_rot"]), sampling_rate),
            VDiv(VSum(gyr_cor["z_rot"]), sampling_rate))

\* lines 224-225
ScaleGyro(multiplied) ==
    DiagMat([i \in Axes |-> RSqrt(DiagOf(MatMul(multiplied, Transpose(multiplied)))[i])])

NoLocals ==
    [U_a_p |-> Unset, U_a_n |-> Unset, U_a_d |-> Unset,
     acc_rot_cor |-> [l \in Range(Rotations) |-> <<>>],
     gyr_rot_cor |-> [l \in Range(Rotations) |-> <<>>],
     W_s |-> Unset, multiplied |-> Unset]

InitEst ==
    /\ est_pc = "new"
    /\ args \in EstArgs
    /\ est = InitEstimator(Zero, NoNumber, NoNumber, NoKwargs)
    /\ cal_mat = NewCalMat
    /\ loc = NoLocals
    /\ ccm_result = Pending

IdleEst ==
    /\ est_pc = "idle"
    /\ args = [via |-> "none", sampling_rate |-> Zero, grav |-> NoNumber,
               expected_angle |-> NoNumber, kwargs |-> NoKwargs, data |-> <<>>,
               section_list |-> <<>>]
    /\ est = InitEstimator(Zero, NoNumber, NoNumber, NoKwargs)
    /\ cal_mat = NewCalMat
    /\ loc = NoLocals
    /\ ccm_result = Pending

not_est_vars == <<load_vars, registry_vars, lookup_vars, ser_vars, eq_vars>>

\* FerrarisCalibration(sampling_rate, grav, expected_angle, **kwargs)
CallInit ==
    /\ est_pc = "new"
    /\ args.via = "init"
    /\ est' = InitEstimator(args.sampling_rate, args.grav, args.expected_angle, args.kwargs)
    /\ est_pc' = "ready"
    /\ UNCHANGED <<args, cal_mat, loc, ccm_result, not_est_vars>>

\* FerrarisCalibration.from_section_list(data, section_list, sampling_rate, ...)
CallFromSectionList ==
    /\ est_pc = "new"
    /\ args.via = "from_section_list"
    /\ LET out == FromSectionList(args.data, args.section_list, args.sampling_rate,
                                  args.grav, args.expected_angle)
       IN IF out.kind = "raise"
          THEN /\ est_pc' = "failed"
               /\ ccm_result' = out
               /\ est' = est
          ELSE /\ est_pc' = "ready"
               /\ ccm_result' = ccm_result
               /\ est' = out.val
    /\ UNCHANGED <<args, cal_mat, loc, not_est_vars>>

\* compute_calibration_matrix ends with an exception
CcmRaise(exc) ==
    /\ est_pc' = "done"
    /\ ccm_result' = Err(exc)

AnyNone(segs, labels) == \E i \in 1..Len(labels) : ~segs[labels[i]].some

\* lines 121-148: cal_mat is created, the static means are taken, b_a is stored;
\* numpy.mean of None raises
CcmBiasAcc ==
    /\ est_pc = "ready"
    /\ IF AnyNone(est.acc, Statics)
       THEN /\ CcmRaise("AxisError")
            /\ cal_mat' = NewCalMat
            /\ loc' = loc
       ELSE LET U_a_p == MeansAsColumns(est.acc, StaticP)
                U_a_n == MeansAsColumns(est.acc, StaticA)
            IN /\ loc' = [loc EXCEPT !.U_a_p = U_a_p, !.U_a_n = U_a_n]
               /\ cal_mat' = [NewCalMat EXCEPT !["b_a"] = BiasAcc(U_a_p, U_a_n)]
               /\ est_pc' = "b_a"
               /\ ccm_result' = ccm_result
    /\ UNCHANGED <<args, est, not_est_vars>>

\* lines 153-159: K_a is stored
CcmScaleAcc ==
    /\ est_pc = "b_a"
    /\ LET U_a_d == MSub(loc.U_a_p, loc.U_a_n)
       IN /\ loc' = [loc EXCEPT !.U_a_d = U_a_d]
          /\ cal_mat' = [cal_mat EXCEPT !["K_a"] = ScaleAcc(U_a_d, est.grav)]
    /\ est_pc' = "K_a"
    /\ UNCHANGED <<args, est, ccm_result, not_est_vars>>

\* lines 163-164: R_a is stored; inv(K_a) raises for a zero scale factor
CcmRotationAcc ==
    /\ est_pc = "K_a"
    /\ \E inverse \in Inv(cal_mat["K_a"]) :
         IF inverse.kind = "raise"
         THEN /\ CcmRaise(inverse.exc)
              /\ cal_mat' = cal_mat
         ELSE /\ cal_mat' = [cal_mat EXCEPT
                               !["R_a"] = RotationAcc(inverse.val, loc.U_a_d, est.grav)]
              /\ est_pc' = "R_a"
              /\ ccm_result' = ccm_result
    /\ UNCHANGED <<args, est, loc, not_est_vars>>

\* lines 173-182: b_g is stored; numpy.vstack raises on None among the arrays
CcmBiasGyro ==
    /\ est_pc = "R_a"
    /\ IF AnyNone(est.gyr, Statics)
       THEN /\ CcmRaise("ValueError")
            /\ cal_mat' = cal_mat
       ELSE /\ cal_mat' = [cal_mat EXCEPT !["b_g"] = BiasGyro(est.gyr)]
            /\ est_pc' = "b_g"
            /\ ccm_result' = ccm_result
    /\ UNCHANGED <<args, est, loc, not_est_vars>>

\* lines 187-200: K_ga is stored
CcmSensitivity ==
    /\ est_pc = "b_g"
    /\ cal_mat' = [cal_mat EXCEPT !["K_ga"] =
                      Sensitivity(MeansAsColumns(est.gyr, StaticP),
                                  MeansAsColumns(est.gyr, StaticA), est.grav)]
    /\ est_pc' = "K_ga"
    /\ UNCHANGED <<args, est, loc, ccm_result, not_est_vars>>

\* lines 205-207: calibrate_acc on the three rotation sections, in order
CcmCalibrateAcc ==
    /\ est_pc = "K_ga"
    /\ \E x \in CalibrateAcc(cal_mat, est.acc["x_rot"]),
          y \in CalibrateAcc(cal_mat, est.acc["y_rot"]),
          z \in CalibrateAcc(cal_mat, est.acc["z_rot"]) :
         IF x.kind = "raise" THEN CcmRaise(x.exc) /\ loc' = loc
         ELSE IF y.kind = "raise" THEN CcmRaise(y.exc) /\ loc' = loc
         ELSE IF z.kind = "raise" THEN CcmRaise(z.exc) /\ loc' = loc
         ELSE /\ loc' = [loc EXCEPT !.acc_rot_cor =
                            [l \in Range(Rotations) |->
                                IF l = "x_rot" THEN x.val
                                ELSE IF l = "y_rot" THEN y.val ELSE z.val]]
              /\ est_pc' = "acc_cor"
              /\ ccm_result' = ccm_result
    /\ UNCHANGED <<args, est, cal_mat, not_est_vars>>

\* a variant of lines 208-210 that hands _calibrate_gyro_offsets the raw
\* acceleration of the section instead of the calibrated one
CcmGyroOffsetsRawAcc ==
    /\ est_pc = "acc_cor"
    /\ LET out == [l \in Range(Rotations) |->
                      IF est.acc[l].some
                      THEN CalibrateGyroOffsets(cal_mat, est.gyr[l], est.acc[l].rows)
                      ELSE Err("TypeError")]
           failed == {i \in 1..Len(Rotations) : out[Rotations[i]].kind = "raise"}
       IN IF failed # {}
          THEN /\ CcmRaise(out[Rotations[CHOOSE i \in failed :
                                             \A j \in failed : i <= j]].exc)
               /\ loc' = loc
          ELSE /\ loc' = [loc EXCEPT !.gyr_rot_cor =
                             [l \in Range(Rotations) |-> out[l].val]]
               /\ est_pc' = "gyr_cor"
               /\ ccm_result' = ccm_result
    /\ UNCHANGED <<args, est, cal_mat, not_est_vars>>

\* lines 208-210: _calibrate_gyro_offsets on the three rotation sections, each
\* with the calibrated acceleration of the same section
CcmGyroOffsets ==
    /\ est_pc = "acc_cor"
    /\ LET out == [l \in Range(Rotations) |->
                      CalibrateGyroOffsets(cal_mat, est.gyr[l], loc.acc_rot_cor[l])]
           failed == {i \in 1..Len(Rotations) : out[Rotations[i]].kind = "raise"}
       IN IF failed # {}
          THEN /\ CcmRaise(out[Rotations[CHOOSE i \in failed :
                                             \A j \in failed : i <= j]].exc)
               /\ loc' = loc
          ELSE /\ loc' = [loc EXCEPT !.gyr_rot_cor =
                             [l \in Range(Rotations) |-> out[l].val]]
               /\ est_pc' = "gyr_cor"
               /\ ccm_result' = ccm_result
    /\ UNCHANGED <<args, est, cal_mat, not_est_vars>>

\* lines 214-217: W_s
CcmIntegrate ==
    /\ est_pc = "gyr_cor"
    /\ loc' = [loc EXCEPT !.W_s = Integrate(loc.gyr_rot_cor, est.sampling_rate)]
    /\ est_pc' = "W_s"
    /\ UNCHANGED <<args, est, cal_mat, ccm_result, not_est_vars>>

\* lines 220-226: W_s over the expected angles, K_g is stored
CcmScaleGyro ==
    /\ est_pc = "W_s"
    /\ \E inverse \in Inv(DiagMat([i \in Axes |-> est.expected_angle])) :
         IF inverse.kind = "raise"
         THEN /\ CcmRaise(inverse.exc)
              /\ UNCHANGED <<loc, cal_mat>>
         ELSE LET multiplied == MatMul(loc.W_s, inverse.val)
              IN /\ loc' = [loc EXCEPT !.multiplied = multiplied]
                 /\ cal_mat' = [cal_mat EXCEPT !["K_g"] = ScaleGyro(multiplied)]
                 /\ est_pc' = "K_g"
                 /\ ccm_result' = ccm_result
    /\ UNCHANGED <<args, est, not_est_vars>>

\* lines 228-229: R_g is stored; inv(K_g) raises for a zero scale factor
CcmRotationGyro ==
    /\ est_pc = "K_g"
    /\ \E inverse \in Inv(cal_mat["K_g"]) :
         IF inverse.kind = "raise"
         THEN /\ CcmRaise(inverse.exc)
              /\ cal_mat' = cal_mat
         ELSE /\ cal_mat' = [cal_mat EXCEPT !["R_g"] = MatMul(inverse.val, loc.multiplied)]
              /\ est_pc' = "R_g"
              /\ ccm_result' = ccm_result
    /\ UNCHANGED <<args, est, loc, not_est_vars>>

\* line 231
CcmReturn ==
    /\ est_pc = "R_g"
    /\ ccm_result' = Ok(cal_mat)
    /\ est_pc' = "done"
    /\ UNCHANGED <<args, est, cal_mat, loc, not_est_vars>>

---------------------------------------------------------------------------
(* Specifications *)

\* load_calibration_info on every path and format
InitSpecLoad == InitLoad /\ InitRegistry /\ InitLookup /\ IdleSerial /\ InitEq /\ IdleEst
SpecLoad == InitSpecLoad /\ [][CallLoadCalibrationInfo]_vars

\* subclasses are defined, then a tag is looked up
InitSpecLookup == IdleLoad /\ InitRegistry /\ InitLookup /\ IdleSerial /\ InitEq /\ IdleEst
NextLookup == DefineSubclass \/ CallFindSubclassFromCalType
SpecLookup == InitSpecLookup /\ [][NextLookup]_vars

\* subclasses are defined, a valid record is built and taken through JSON or HDF5
InitSpecSerial == IdleLoad /\ InitRegistry /\ InitLookup /\ InitSerial /\ InitEq /\ IdleEst
NextSerial ==
    \/ DefineSubclass
    \/ ConstructRecord
    \/ CallToJson
    \/ CallFromJson
    \/ CallToHdf5
    \/ CallFromHdf5
SpecSerial == InitSpecSerial /\ [][NextSerial]_vars

\* any record is written to and read from files that other programs may edit
NextFile ==
    \/ ConstructAnyRecord
    \/ CallToJsonFile
    \/ CallFromJsonFile
    \/ CallToHdf5
    \/ CallFromHdf5
    \/ EditFile
SpecFile == InitSpecSerial /\ [][NextFile]_vars

\* subclasses are defined, then two records are compared
NextEq == DefineSubclass \/ Compare
SpecEq == InitSpecLookup /\ [][NextEq]_vars

\* an estimator is built, from arrays or from a section list, and
\* compute_calibration_matrix runs
InitSpecEst == IdleLoad /\ InitRegistry /\ InitLookup /\ IdleSerial /\ InitEq /\ InitEst
NextEst ==
    \/ CallInit
    \/ CallFromSectionList
    \/ CcmBiasAcc
    \/ CcmScaleAcc
    \/ CcmRotationAcc
    \/ CcmBiasGyro
    \/ CcmSensitivity
    \/ CcmCalibrateAcc
    \/ CcmGyroOffsets
    \/ CcmIntegrate
    \/ CcmScaleGyro
    \/ CcmRotationGyro
    \/ CcmReturn
SpecEst == InitSpecEst /\ [][NextEst]_vars

---------------------------------------------------------------------------
(* Properties *)

\* the text after the last dot of a file name
Extension(p) == IF PathSuffix(p) = <<>> THEN <<>> ELSE Tail(PathSuffix(p))

\* C1: with format omitted, the path's extension resolves the format: a path
\* ending in .json goes to from_json_file, one ending in .hdf or .h5 goes to
\* from_hdf5, and no error is raised for these extensions.
C1_SuffixResolvesFormat ==
    (load_pc = "done" /\ format = PyNone) =>
        /\ Extension(path) = Lit("json") => load_result = CallLoader("from_json_file")
        /\ Extension(path) \in {Lit("hdf"), Lit("h5")} => load_result = CallLoader("from_hdf5")

\* foo.json, format omitted: the call has raised
C1_JsonPathRejected ==
    /\ load_pc = "done"
    /\ format = PyNone
    /\ path = <<"foo", ".", "json">>
    /\ load_result.kind = "raise"

\* C2: load_calibration_info raises, and calls no file loader, when format is
\* omitted and the extension is none of json, hdf, h5, and when a format is
\* given that is neither "json" nor "hdf", whatever the extension.
C2_UnresolvableFormatFails ==
    (/\ load_pc = "done"
     /\ \/ format = PyNone /\ Extension(path) \notin {Lit("json"), Lit("hdf"), Lit("h5")}
        \/ format # PyNone /\ format.s \notin {"json", "hdf"})
    => (load_result.kind = "raise" /\ load_result.loader = "")

\* foo.json with format "bogus" has been rejected
C2_BogusFormatRejected ==
    /\ load_pc = "done"
    /\ path = <<"foo", ".", "json">>
    /\ format = PyStr("bogus")
    /\ load_result.kind = "raise"

\* C3: find_subclass_from_cal_type returns the subclass carrying the tag for
\* every registered tag; for a tag no subclass carries it raises an error of
\* its own kind (not the exhausted iterator's StopIteration) and returns no class.
C3_LookupByTag ==
    lookup_pc = "done" =>
        IF lookup_tag \in RegisteredTags(subclasses)
        THEN /\ lookup_result.kind = "return"
             /\ lookup_result.cls \in ClassIds(subclasses)
             /\ subclasses[lookup_result.cls].cal_type = lookup_tag
        ELSE /\ lookup_result.kind = "raise"
             /\ lookup_result.exc # "StopIteration"

\* an unregistered tag was looked up among three subclasses
C3_UnknownTagStopIteration ==
    /\ lookup_pc = "done"
    /\ Len(subclasses) = 3
    /\ lookup_tag \notin RegisteredTags(subclasses)
    /\ lookup_result = LookupRaise("StopIteration", "")

\* C4: for every valid record of a registered subclass, from_json(to_json(r))
\* returns a record of the same subclass that == finds equal to r.
C4_JsonRoundTrip ==
    ser_pc = "done_json" =>
        /\ back.kind = "return"
        /\ back.val.cls = rec.cls
        /\ RichCompare(subclasses, back.val, rec) = Ok(TRUE)

\* a record of a later subclass, its comment the empty string, has come back
C4_SubclassRecordBack ==
    /\ ser_pc = "done_json"
    /\ rec.cls = 2
    /\ rec.vals["comment"] = PyStr("")
    /\ rec.vals["acc_unit"] = PyStr("m/s^2")
    /\ back.kind = "return"

\* C5: for every valid record, whatever its optional fields hold (None, or any
\* str, the empty one included), from_hdf5 of what to_hdf5 wrote returns an
\* equal record: an unset field comes back unset, a set one with its value.
C5_HdfRoundTrip ==
    ser_pc = "done_hdf" =>
        /\ back.kind = "return"
        /\ back.val.cls = rec.cls
        /\ \A f \in Range(MetaFields) : back.val.vals[f] = rec.vals[f]
        /\ RichCompare(subclasses, back.val, rec) = Ok(TRUE)

\* a record whose comment was "" has come back with comment None
C5_EmptyCommentLost ==
    /\ ser_pc = "done_hdf"
    /\ rec.vals["comment"] = PyStr("")
    /\ back.kind = "return"
    /\ back.val.vals["comment"] = PyNone

\* C6 (as the code has it): for two records of different classes, a class
\* derived from the other included, a == b and b == a both raise ValueError;
\* neither answers True or False.
C6_CrossSubtypeRaisesValueError ==
    (eq_pc = "done" /\ eq_a.cls # eq_b.cls) =>
        (eq_ab = Err("ValueError") /\ eq_ba = Err("ValueError"))

\* C6 (as stated): for two records of different classes, a == b and b == a
\* both fail with a type error.
C6_CrossSubtypeRaisesTypeError ==
    (eq_pc = "done" /\ eq_a.cls # eq_b.cls) =>
        (eq_ab = Err("TypeError") /\ eq_ba = Err("TypeError"))

\* a FerrarisCalibrationInfo record was compared with a record of a class
\* derived from FerrarisCalibrationInfo
C6_DerivedComparedWithBase ==
    /\ eq_pc = "done"
    /\ eq_a.cls = 1
    /\ eq_b.cls = 2
    /\ IsSubclass(subclasses, eq_b.cls, eq_a.cls)
    /\ eq_ab.kind = "raise"
    /\ eq_ba.kind = "raise"

\* an array of the estimator is None or has no sample
Defective(e) ==
    \E sn \in Sensors, l \in Sections : ~e[sn][l].some \/ e[sn][l].rows = <<>>

\* C7: when one of the eighteen arrays is missing at construction, or has no
\* sample, compute_calibration_matrix fails before any matrix is computed and
\* returns no record.
C7_DefectFailsBeforeComputation ==
    (est_pc \notin {"idle", "new", "failed"} /\ Defective(est)) =>
        (cal_mat = NewCalMat /\ ccm_result.kind # "return")

\* the x rotation's gyroscope array had no sample, and a record was returned
C7_RecordFromEmptySegment ==
    /\ est_pc = "done"
    /\ args.via = "init"
    /\ est.gyr["x_rot"] = Samples(<<>>)
    /\ ccm_result.kind = "return"
    /\ ccm_result.val["K_g"] # Unset

\* the section list lacks one of the nine labels or maps one to no row
SectionListDefective(sl) ==
    \/ \E l \in Sections : \A i \in 1..Len(sl) : sl[i].label # l
    \/ \E i \in 1..Len(sl) : sl[i].start >= sl[i].end

\* C8: from_section_list fails, and builds no estimator, when the section
\* list lacks one of the nine labels or maps a label to an empty row range.
C8_LoaderRejectsDefect ==
    (/\ args.via = "from_section_list"
     /\ est_pc \notin {"idle", "new"}
     /\ SectionListDefective(args.section_list))
    => est_pc = "failed"

\* an estimator was built from a list without the x_rot label
C8_EstimatorWithoutSegment ==
    /\ args.via = "from_section_list"
    /\ est_pc = "ready"
    /\ \A i \in 1..Len(args.section_list) : args.section_list[i].label # "x_rot"
    /\ ~est.acc["x_rot"].some
    /\ ~est.gyr["x_rot"].some

\* the positive and the negative static reading of some axis are identical
ZeroAccScale(e) ==
    \E i \in Axes :
        MeanRows(e.acc[StaticP[i]].rows)[i] = MeanRows(e.acc[StaticA[i]].rows)[i]

\* C9: given an expected angle of 0, or static readings with a zero
\* accelerometer scale factor, compute_calibration_matrix ends in an error
\* and returns no record; the estimator keeps the angle the caller gave and
\* puts no default in its place.
C9_DegeneracySurfaced ==
    /\ (est_pc \notin {"idle", "new", "failed"} /\ args.expected_angle.some)
          => est.expected_angle = args.expected_angle.v
    /\ (/\ est_pc = "done"
        /\ ~Defective(est)
        /\ args.expected_angle = Number(Zero) \/ ZeroAccScale(est))
          => ccm_result.kind = "raise"

\* the caller gave the angle 0, the estimator held 360, and a record was returned
C9_ZeroAngleReplaced ==
    /\ est_pc = "done"
    /\ args.expected_angle = Number(Zero)
    /\ est.expected_angle = Num(EXPECTED_ANGLE)
    /\ ~Defective(est)
    /\ ccm_result.kind = "return"

\* C10: when to_json_file, from_json_file, to_hdf5 or from_hdf5 has ended,
\* by a return or by an error, the file it opened is closed.
C10_HandlesClosed ==
    \A i \in 1..Len(handles) : handles[i].state = "closed"

\* to_json_file ended with the encoder's error and its file is open
C10_JsonFileLeftOpen ==
    /\ ser_pc = "jsonfile"
    /\ file = BrokenFile
    /\ Len(handles) = 1
    /\ handles[1] = Handle("to_json_file", "open")

\* the parameters named are stored in the record being filled
Stored(names) == \A k \in names : cal_mat[k] # Unset

\* what one step of compute_calibration_matrix may do, given what was done
OrderedStep ==
    /\ loc'.acc_rot_cor # loc.acc_rot_cor =>
          /\ Stored({"b_a", "K_a", "R_a"})
          /\ \A l \in Range(Rotations) :
                Ok(loc'.acc_rot_cor[l]) \in CalibrateAcc(cal_mat, est.acc[l])
    /\ loc'.gyr_rot_cor # loc.gyr_rot_cor =>
          /\ est_pc = "acc_cor"
          /\ Stored({"b_g", "K_ga"})
          /\ \A l \in Range(Rotations) :
                Ok(loc'.gyr_rot_cor[l]) =
                    CalibrateGyroOffsets(cal_mat, est.gyr[l], loc.acc_rot_cor[l])
    /\ loc'.W_s # loc.W_s =>
          /\ est_pc = "gyr_cor"
          /\ loc'.W_s = Integrate(loc.gyr_rot_cor, est.sampling_rate)
    /\ cal_mat'["K_g"] # cal_mat["K_g"] =>
          /\ Stored({"b_a", "K_a", "R_a", "b_g", "K_ga"})
          /\ loc.W_s # Unset
    /\ cal_mat'["R_g"] # cal_mat["R_g"] =>
          Stored({"b_a", "K_a", "R_a", "b_g", "K_ga", "K_g"})

\* C11: in compute_calibration_matrix, calibrate_acc is applied to the
\* rotation sections only after b_a, K_a and R_a are stored; the gyroscope
\* offsets are removed only after b_g and K_ga are stored, with the calibrated
\* acceleration of the same section; W_s is integrated only after the offsets
\* are removed; K_g and R_g are stored last, and a record that is returned has
\* all seven parameters set.
C11_ComputationOrder ==
    /\ [][OrderedStep]_vars
    /\ [](ccm_result.kind = "return" =>
             /\ ccm_result.val = cal_mat
             /\ Stored(Range(FerrarisParas)))

\* a record was returned for well-formed arrays and the default gravity, the
\* calibrated acceleration of the x rotation differing from the raw one
C11_RecordReturned ==
    /\ est_pc = "done"
    /\ ccm_result.kind = "return"
    /\ ~Defective(est)
    /\ args.grav = NoNumber
    /\ loc.acc_rot_cor["x_rot"] # est.acc["x_rot"].rows
    /\ Stored(Range(FerrarisParas))

====
